---- MODULE Spec2Model ----
(***************************************************************************)
(* kubectl-enhanced-cli: a wrapper that classifies a kubectl invocation,   *)
(* resolves the rules of the current cluster context and then blocks,      *)
(* asks for confirmation, or runs kubectl.                                 *)
(*                                                                         *)
(* Strings are TLA+ strings; a character is a string of length one.        *)
(***************************************************************************)
EXTENDS Integers, Sequences, FiniteSets, TLC

VARIABLES
    pc,          \* position of main / of the function under test
    argv,        \* os.Args[1:] as given by the caller
    args,        \* main's local args (reassigned to filteredArgs)
    cfg,         \* the configuration used for resolution
    warned,      \* the "Could not load config" warning was printed
    context,     \* current kubectl context
    hasYesFlag,  \* main's hasYesFlag
    action,      \* rbac.DetectAction(args)
    rules,       \* cfg.GetClusterRules(context)
    rules2,      \* result of a second GetClusterRules call on the same input
    blocked,     \* result of rbac.IsBlocked(action, rules)
    needsConfirm,\* result of rbac.RequiresConfirmation(action, rules)
    confirmed,   \* result of output.PromptConfirmation
    prompts,     \* number of confirmation prompts shown
    execs,       \* number of kubectl.Execute calls
    exitCode,    \* exit status of the wrapper, -1 while running
    outcome,     \* which exit of main was taken
    file,        \* the file found at ConfigPath() when config.Load read it
    loaded,      \* what config.Load returned: [cfg, err]
    contextErr,  \* kubectl.GetCurrentContext returned an error
    stdin,       \* standard input at the prompt: [terminal, reads, read]
    child,       \* the kubectl child of Execute: its arguments and its end
    severity,    \* result of rbac.GetActionSeverity, "" before a call
    description  \* result of rbac.DescribeAction, "" before a call

vars == <<pc, argv, args, cfg, warned, context, hasYesFlag, action, rules,
          rules2, blocked, needsConfirm, confirmed, prompts, execs, exitCode,
          outcome, file, loaded, contextErr, stdin, child, severity,
          description>>

----------------------------------------------------------------------------
(* strings *)

Char(s, i) == SubSeq(s, i, i)

\* strings.HasPrefix
HasPrefix(s, p) == Len(s) >= Len(p) /\ SubSeq(s, 1, Len(p)) = p

\* strings.Contains for a one-character needle
ContainsChar(s, c) == \E i \in 1..Len(s) : Char(s, i) = c

UpperLetters == "ABCDEFGHIJKLMNOPQRSTUVWXYZ"
LowerLetters == "abcdefghijklmnopqrstuvwxyz"

\* the lower-case letter of every upper-case letter
LowerOf ==
    [c \in {Char(UpperLetters, i) : i \in 1..Len(UpperLetters)} |->
        Char(LowerLetters, CHOOSE i \in 1..Len(UpperLetters) : Char(UpperLetters, i) = c)]

LowerChar(c) == IF c \in DOMAIN LowerOf THEN LowerOf[c] ELSE c

RECURSIVE ToLower(_)
\* strings.ToLower
ToLower(s) == IF s = "" THEN "" ELSE LowerChar(Char(s, 1)) \o ToLower(Tail(s))

\* a sequence as the set of its elements
Range(q) == {q[i] : i \in 1..Len(q)}

\* all orders in which the keys of a Go map can be iterated
Orders(S) ==
    {q \in [1..Cardinality(S) -> S] : \A x \in S : \E i \in 1..Cardinality(S) : q[i] = x}

----------------------------------------------------------------------------
(* pkg/rbac *)

ActionDelete  == "delete"
ActionDrain   == "drain"
ActionCordon  == "cordon"
ActionScale   == "scale"
ActionEdit    == "edit"
ActionPatch   == "patch"
ActionApply   == "apply"
ActionCreate  == "create"
ActionExec    == "exec"
ActionRollout == "rollout"
ActionUnknown == "unknown"

\* DestructiveActions with every verb mapped to itself
DestructiveActionsIdentity ==
    [v \in {"delete", "drain", "cordon", "uncordon", "scale", "edit", "patch",
            "apply", "create", "exec", "rollout"} |-> v]

\* DestructiveActions maps kubectl commands to their action type
DestructiveActions ==
    [v \in {"delete", "drain", "cordon", "uncordon", "scale", "edit", "patch",
            "apply", "create", "exec", "rollout"} |->
        IF v = "uncordon" THEN ActionCordon ELSE v]

\* Flags that take a value argument
flagsWithValues ==
    {"-n", "--namespace", "-l", "--selector", "-o", "--output", "-f",
     "--filename", "--context", "--kubeconfig", "--cluster", "--user", "-c",
     "--container", "--field-selector", "--sort-by", "--template", "-p",
     "--patch", "--type", "--replicas", "--timeout", "--grace-period"}

RECURSIVE DetectLoopNoSkip(_, _, _)
\* the loop of DetectAction without the skipping of flag values
DetectLoopNoSkip(a, i, skipNext) ==
    IF i > Len(a) THEN ActionUnknown
    ELSE IF HasPrefix(a[i], "-") THEN DetectLoopNoSkip(a, i + 1, FALSE)
    ELSE IF a[i] \in DOMAIN DestructiveActions THEN DestructiveActions[a[i]]
    ELSE a[i]

RECURSIVE DetectLoopLongFlags(_, _, _)
\* the loop of DetectAction taking only tokens that start with -- for flags
DetectLoopLongFlags(a, i, skipNext) ==
    IF i > Len(a) THEN ActionUnknown
    ELSE IF skipNext THEN DetectLoopLongFlags(a, i + 1, FALSE)
    ELSE IF HasPrefix(a[i], "--") THEN DetectLoopLongFlags(a, i + 1, a[i] \in flagsWithValues)
    ELSE IF a[i] \in DOMAIN DestructiveActions THEN DestructiveActions[a[i]]
    ELSE a[i]

RECURSIVE DetectLoopEveryFlag(_, _, _)
\* the loop of DetectAction taking every flag for a value-consuming one
DetectLoopEveryFlag(a, i, skipNext) ==
    IF i > Len(a) THEN ActionUnknown
    ELSE IF skipNext THEN DetectLoopEveryFlag(a, i + 1, FALSE)
    ELSE IF HasPrefix(a[i], "--") /\ ContainsChar(a[i], "=") THEN DetectLoopEveryFlag(a, i + 1, FALSE)
    ELSE IF HasPrefix(a[i], "-") THEN DetectLoopEveryFlag(a, i + 1, TRUE)
    ELSE IF a[i] \in DOMAIN DestructiveActions THEN DestructiveActions[a[i]]
    ELSE a[i]

RECURSIVE DetectLoop(_, _, _)
\* the loop of DetectAction from index i on, with the loop's skipNext
DetectLoop(a, i, skipNext) ==
    IF i > Len(a) THEN ActionUnknown
    ELSE IF skipNext THEN DetectLoop(a, i + 1, FALSE)
    ELSE IF HasPrefix(a[i], "--") /\ ContainsChar(a[i], "=") THEN DetectLoop(a, i + 1, FALSE)
    ELSE IF HasPrefix(a[i], "-") THEN DetectLoop(a, i + 1, a[i] \in flagsWithValues)
    ELSE IF a[i] \in DOMAIN DestructiveActions THEN DestructiveActions[a[i]]
    ELSE a[i]

DetectAction(a) == IF Len(a) = 0 THEN ActionUnknown ELSE DetectLoop(a, 1, FALSE)

\* matchAction without the alias cases
matchActionExact(rule, act) == ToLower(rule) = ToLower(act)

\* matchAction comparing the strings as written, without strings.ToLower
matchActionCaseSensitive(rule, act) ==
    IF rule = act THEN TRUE
    ELSE CASE rule = ActionDrain   -> act = ActionDrain \/ act = ActionCordon
           [] rule = ActionDelete  -> act = ActionDelete
           [] rule = ActionScale   -> act = ActionScale
           [] rule = ActionEdit    -> act = ActionEdit \/ act = ActionPatch
           [] rule = ActionApply   -> act = ActionApply \/ act = ActionCreate
           [] rule = ActionExec    -> act = ActionExec
           [] rule = ActionRollout -> act = ActionRollout
           [] OTHER                -> FALSE

\* matchAction with every alias taken in both directions
matchActionSymmetric(rule, act) ==
    LET r == ToLower(rule)
        a == ToLower(act)
    IN  \/ r = a
        \/ {r, a} \in {{ActionDrain, ActionCordon}, {ActionEdit, ActionPatch},
                       {ActionApply, ActionCreate}}

matchAction(rule, act) ==
    LET r == ToLower(rule)
        a == ToLower(act)
    IN  IF r = a THEN TRUE
        ELSE CASE r = ActionDrain   -> a = ActionDrain \/ a = ActionCordon
               [] r = ActionDelete  -> a = ActionDelete
               [] r = ActionScale   -> a = ActionScale
               [] r = ActionEdit    -> a = ActionEdit \/ a = ActionPatch
               [] r = ActionApply   -> a = ActionApply \/ a = ActionCreate
               [] r = ActionExec    -> a = ActionExec
               [] r = ActionRollout -> a = ActionRollout
               [] OTHER             -> FALSE

IsBlocked(act, r) ==
    \E i \in 1..Len(r.BlockedActions) : matchAction(r.BlockedActions[i], act)

RequiresConfirmation(act, r) ==
    \E i \in 1..Len(r.RequireConfirmation) : matchAction(r.RequireConfirmation[i], act)

\* GetActionSeverity with exec counted as a medium action
GetActionSeverityExecMedium(act) ==
    CASE act \in {ActionDelete, ActionDrain} -> "high"
      [] act \in {ActionScale, ActionCordon, ActionExec} -> "medium"
      [] act \in {ActionEdit, ActionPatch, ActionRollout} -> "medium"
      [] act \in {ActionApply, ActionCreate} -> "low"
      [] OTHER -> "none"

\* GetActionSeverity returns a severity level for display purposes
GetActionSeverity(act) ==
    CASE act \in {ActionDelete, ActionDrain} -> "high"
      [] act \in {ActionScale, ActionCordon} -> "medium"
      [] act \in {ActionEdit, ActionPatch, ActionRollout} -> "medium"
      [] act \in {ActionApply, ActionCreate} -> "low"
      [] OTHER -> "none"

\* DescribeAction returns a human-readable description of the action
DescribeAction(act) ==
    CASE act = ActionDelete  -> "Delete resources"
      [] act = ActionDrain   -> "Drain node (evict all pods)"
      [] act = ActionCordon  -> "Cordon/uncordon node"
      [] act = ActionScale   -> "Scale deployment replicas"
      [] act = ActionEdit    -> "Edit resource configuration"
      [] act = ActionPatch   -> "Patch resource"
      [] act = ActionApply   -> "Apply configuration"
      [] act = ActionCreate  -> "Create resource"
      [] act = ActionExec    -> "Execute command in pod"
      [] act = ActionRollout -> "Manage rollout"
      [] OTHER               -> act

----------------------------------------------------------------------------
(* pkg/config *)

\* Default with the production tier's prefix patterns left out
DefaultSuffixOnly ==
    [Defaults |-> [RequireConfirmation |-> FALSE, BlockedActions |-> <<>>],
     Clusters |-> <<>>,
     Tiers |->
        [production |->
            [Patterns |-> <<"*-prod", "*-production">>,
             RequireConfirmation |-> <<"delete", "drain">>,
             BlockedActions |-> <<>>],
         staging |->
            [Patterns |-> <<"*-staging", "*-stg", "staging-*", "stg-*">>,
             RequireConfirmation |-> <<"delete">>,
             BlockedActions |-> <<>>],
         development |->
            [Patterns |-> <<"*-dev", "*-development", "dev-*", "development-*",
                            "local*", "minikube", "docker-desktop", "kind-*">>,
             RequireConfirmation |-> <<>>,
             BlockedActions |-> <<>>]]]

\* Default returns a default configuration
Default ==
    [Defaults |-> [RequireConfirmation |-> FALSE, BlockedActions |-> <<>>],
     Clusters |-> <<>>,
     Tiers |->
        [production |->
            [Patterns |-> <<"*-prod", "*-production", "prod-*", "production-*">>,
             RequireConfirmation |-> <<"delete", "drain">>,
             BlockedActions |-> <<>>],
         staging |->
            [Patterns |-> <<"*-staging", "*-stg", "staging-*", "stg-*">>,
             RequireConfirmation |-> <<"delete">>,
             BlockedActions |-> <<>>],
         development |->
            [Patterns |-> <<"*-dev", "*-development", "dev-*", "development-*",
                            "local*", "minikube", "docker-desktop", "kind-*">>,
             RequireConfirmation |-> <<>>,
             BlockedActions |-> <<>>]]]

RECURSIVE GlobMatchPrefix(_, _)
\* g.Match(str) that accepts when the pattern has matched a prefix of str
GlobMatchPrefix(p, s) ==
    IF p = "" THEN TRUE
    ELSE IF Char(p, 1) = "*"
         THEN GlobMatchPrefix(Tail(p), s) \/ (s # "" /\ GlobMatchPrefix(p, Tail(s)))
    ELSE IF Char(p, 1) = "?"
         THEN s # "" /\ GlobMatchPrefix(Tail(p), Tail(s))
    ELSE s # "" /\ Char(s, 1) = Char(p, 1) /\ GlobMatchPrefix(Tail(p), Tail(s))

RECURSIVE GlobMatch(_, _)
\* g.Match(str) of a compiled pattern made of literals, '*' and '?'
GlobMatch(p, s) ==
    IF p = "" THEN s = ""
    ELSE IF Char(p, 1) = "*"
         THEN GlobMatch(Tail(p), s) \/ (s # "" /\ GlobMatch(p, Tail(s)))
    ELSE IF Char(p, 1) = "?"
         THEN s # "" /\ GlobMatch(Tail(p), Tail(s))
    ELSE s # "" /\ Char(s, 1) = Char(p, 1) /\ GlobMatch(Tail(p), Tail(s))

\* glob.Compile(pattern) returns an error: a '[' that no ']' closes
GlobCompileError(p) ==
    \E i \in 1..Len(p) :
        Char(p, i) = "[" /\ ~\E j \in (i + 1)..Len(p) : Char(p, j) = "]"

\* filepath.Match(pattern, str) with its error dropped, for a pattern with an
\* unclosed '[': ErrBadPattern, matched = false
FilepathMatch(p, s) == FALSE

\* matchGlob checks if a string matches a glob pattern
matchGlob(pattern, str) ==
    IF GlobCompileError(pattern) THEN FilepathMatch(pattern, str)
    ELSE GlobMatch(pattern, str)

ClusterResolved(cr) ==
    [Tier |-> cr.Tier,
     RequireConfirmation |-> cr.RequireConfirmation,
     BlockedActions |-> cr.BlockedActions]

TierResolved(tierName, tier) ==
    [Tier |-> tierName,
     RequireConfirmation |-> tier.RequireConfirmation,
     BlockedActions |-> tier.BlockedActions]

\* the fallback with the confirmation list returned whatever the flag says
DefaultResolvedAlwaysConfirm(c) ==
    [Tier |-> "default",
     RequireConfirmation |-> <<"delete", "drain">>,
     BlockedActions |-> c.Defaults.BlockedActions]

\* 4. Return defaults
DefaultResolved(c) ==
    [Tier |-> "default",
     RequireConfirmation |->
        IF c.Defaults.RequireConfirmation THEN <<"delete", "drain">> ELSE <<>>,
     BlockedActions |-> c.Defaults.BlockedActions]

RECURSIVE ClusterGlobLoop(_, _, _, _)
\* 2. "for pattern, rules := range c.Clusters" in the iteration order `order`:
\* <<rules>> of the first matching key, <<>> if the loop ends
ClusterGlobLoop(c, ctx, order, i) ==
    IF i > Len(order) THEN <<>>
    ELSE IF matchGlob(order[i], ctx) THEN <<ClusterResolved(c.Clusters[order[i]])>>
    ELSE ClusterGlobLoop(c, ctx, order, i + 1)

RECURSIVE PatternLoop(_, _, _)
\* "for _, pattern := range tier.Patterns": does a pattern from index j on match
PatternLoop(patterns, ctx, j) ==
    IF j > Len(patterns) THEN FALSE
    ELSE IF matchGlob(patterns[j], ctx) THEN TRUE
    ELSE PatternLoop(patterns, ctx, j + 1)

RECURSIVE TierLoopNamesFirst(_, _, _, _)
\* the tiers loop naming the result after the first tier visited
TierLoopNamesFirst(c, ctx, order, i) ==
    IF i > Len(order) THEN <<>>
    ELSE IF PatternLoop(c.Tiers[order[i]].Patterns, ctx, 1)
         THEN <<TierResolved(order[1], c.Tiers[order[i]])>>
    ELSE TierLoopNamesFirst(c, ctx, order, i + 1)

RECURSIVE TierLoop(_, _, _, _)
\* 3. "for tierName, tier := range c.Tiers" in the iteration order `order`
TierLoop(c, ctx, order, i) ==
    IF i > Len(order) THEN <<>>
    ELSE IF PatternLoop(c.Tiers[order[i]].Patterns, ctx, 1)
         THEN <<TierResolved(order[i], c.Tiers[order[i]])>>
    ELSE TierLoop(c, ctx, order, i + 1)

\* GetClusterRules with the tier patterns tried before the cluster globs
GetClusterRulesTierFirst(c, ctx, clusterOrder, tierOrder) ==
    IF ctx \in DOMAIN c.Clusters THEN ClusterResolved(c.Clusters[ctx])
    ELSE LET byGlob == ClusterGlobLoop(c, ctx, clusterOrder, 1)
             byTier == TierLoop(c, ctx, tierOrder, 1)
         IN  IF byTier # <<>> THEN byTier[1]
             ELSE IF byGlob # <<>> THEN byGlob[1]
             ELSE DefaultResolved(c)

\* GetClusterRules with the global blocked actions added to every result
GetClusterRulesMerging(c, ctx, clusterOrder, tierOrder) ==
    LET r == IF ctx \in DOMAIN c.Clusters THEN ClusterResolved(c.Clusters[ctx])
             ELSE LET byGlob == ClusterGlobLoop(c, ctx, clusterOrder, 1)
                      byTier == TierLoop(c, ctx, tierOrder, 1)
                  IN  IF byGlob # <<>> THEN byGlob[1]
                      ELSE IF byTier # <<>> THEN byTier[1]
                      ELSE [Tier |-> "default",
                            RequireConfirmation |->
                                IF c.Defaults.RequireConfirmation
                                THEN <<"delete", "drain">> ELSE <<>>,
                            BlockedActions |-> <<>>]
    IN  [r EXCEPT !.BlockedActions = @ \o c.Defaults.BlockedActions]

\* GetClusterRules returns the resolved rules for a given cluster context;
\* clusterOrder and tierOrder are the orders in which this call's two range
\* loops visit the keys of c.Clusters and c.Tiers
GetClusterRules(c, ctx, clusterOrder, tierOrder) ==
    IF ctx \in DOMAIN c.Clusters THEN ClusterResolved(c.Clusters[ctx])
    ELSE LET byGlob == ClusterGlobLoop(c, ctx, clusterOrder, 1)
             byTier == TierLoop(c, ctx, tierOrder, 1)
         IN  IF byGlob # <<>> THEN byGlob[1]
             ELSE IF byTier # <<>> THEN byTier[1]
             ELSE DefaultResolved(c)

\* the zero value of Config
EmptyConfig ==
    [Defaults |-> [RequireConfirmation |-> FALSE, BlockedActions |-> <<>>],
     Clusters |-> <<>>,
     Tiers |-> <<>>]

\* LoadFromPath that hands out whatever yaml.Unmarshal decoded, error or not
LoadFromPathPartial(f) ==
    IF f.kind = "missing" THEN [cfg |-> <<>>, err |-> "notexist"]
    ELSE IF f.kind = "unreadable" THEN [cfg |-> <<>>, err |-> "read"]
    ELSE IF f.kind = "invalid" THEN [cfg |-> <<f.content>>, err |-> "nil"]
    ELSE [cfg |-> <<f.content>>, err |-> "nil"]

\* LoadFromPath that treats a missing file as an empty one
LoadFromPathMissingIsEmpty(f) ==
    IF f.kind = "missing" THEN [cfg |-> <<EmptyConfig>>, err |-> "nil"]
    ELSE IF f.kind = "unreadable" THEN [cfg |-> <<>>, err |-> "read"]
    ELSE IF f.kind = "invalid" THEN [cfg |-> <<>>, err |-> "yaml"]
    ELSE [cfg |-> <<f.content>>, err |-> "nil"]

\* LoadFromPath loads configuration from a specific path. The file f is
\* [kind, content]: missing, unreadable, invalid (yaml.Unmarshal fails;
\* content is what it had decoded into cfg by then) or valid. The *Config
\* returned is <<>> for nil and <<c>> for a pointer to c
LoadFromPath(f) ==
    IF f.kind = "missing" THEN [cfg |-> <<>>, err |-> "notexist"]
    ELSE IF f.kind = "unreadable" THEN [cfg |-> <<>>, err |-> "read"]
    ELSE IF f.kind = "invalid" THEN [cfg |-> <<>>, err |-> "yaml"]
    ELSE [cfg |-> <<f.content>>, err |-> "nil"]

\* Load loads the configuration from the default config path
Load(f) == LoadFromPath(f)

----------------------------------------------------------------------------
(* pkg/output *)

WhiteSpace == {" ", "\t", "\n", "\r"}

RECURSIVE TrimLeft(_)
TrimLeft(s) == IF s # "" /\ Char(s, 1) \in WhiteSpace THEN TrimLeft(Tail(s)) ELSE s

RECURSIVE TrimRight(_)
TrimRight(s) ==
    IF s # "" /\ Char(s, Len(s)) \in WhiteSpace
    THEN TrimRight(SubSeq(s, 1, Len(s) - 1))
    ELSE s

\* strings.TrimSpace
TrimSpace(s) == TrimRight(TrimLeft(s))

\* PromptConfirmation that takes a missing terminal for consent
PromptConfirmationFailOpen(stdinTerminal, read) ==
    IF ~stdinTerminal THEN TRUE
    ELSE IF read.err THEN FALSE
    ELSE LET response == TrimSpace(ToLower(read.line))
         IN  response = "y" \/ response = "yes"

\* the number of reads of standard input PromptConfirmation makes
PromptConfirmationReads(stdinTerminal) == IF stdinTerminal THEN 1 ELSE 0

\* PromptConfirmation asks the user to confirm an action. stdinTerminal is
\* isStdinTerminal(); read is what reader.ReadString('\n') returns:
\* [line, err]
PromptConfirmation(stdinTerminal, read) ==
    IF ~stdinTerminal THEN FALSE
    ELSE IF read.err THEN FALSE
    ELSE LET response == TrimSpace(ToLower(read.line))
         IN  response = "y" \/ response = "yes"

----------------------------------------------------------------------------
(* inputs of a run of main *)

MaxExitCode == 2

\* exit codes of the kubectl child process
ExitCodes == 0..MaxExitCode

InsertAt(q, i, x) == SubSeq(q, 1, i) \o <<x>> \o SubSeq(q, i + 1, Len(q))

BaseArgs ==
    {<<>>, <<"--version">>, <<"-h">>, <<"--config-path">>, <<"init", "-n">>,
     <<"delete", "pod", "foo">>,
     <<"-n", "default", "delete", "pods">>,
     <<"drain", "node-1">>,
     <<"uncordon", "node-1">>,
     <<"create", "-f", "x.yaml">>,
     <<"patch", "deploy", "web">>,
     <<"scale", "deploy", "web">>,
     <<"get", "pods">>,
     <<"--namespace=kube-system", "-v">>,
     <<"--as", "admin", "delete", "pod">>,
     <<"exec", "web", "--", "rm">>,
     <<"-y", "delete", "pod", "--yes">>}

YesFlags == {"--yes", "-y"}

\* os.Args[1:]: a base vector, or one with a skip flag put anywhere in it
ArgVectors ==
    BaseArgs \cup
    UNION {{InsertAt(b, i, y) : i \in 0..Len(b), y \in YesFlags} : b \in BaseArgs}

\* the example configuration of the README
ExampleConfig ==
    [Defaults |-> [RequireConfirmation |-> FALSE, BlockedActions |-> <<>>],
     Clusters |->
        [k \in {"production-us-east-1", "staging-*"} |->
            IF k = "production-us-east-1"
            THEN [Tier |-> "production",
                  RequireConfirmation |-> <<"delete", "drain">>,
                  BlockedActions |-> <<>>]
            ELSE [Tier |-> "staging",
                  RequireConfirmation |-> <<"delete">>,
                  BlockedActions |-> <<>>]],
     Tiers |->
        [production |->
            [Patterns |-> <<"*-prod", "*-production", "prod-*", "production-*">>,
             RequireConfirmation |-> <<"delete", "drain">>,
             BlockedActions |-> <<>>],
         staging |->
            [Patterns |-> <<"*-staging", "*-stg", "staging-*">>,
             RequireConfirmation |-> <<"delete">>,
             BlockedActions |-> <<>>],
         development |->
            [Patterns |-> <<"*-dev", "dev-*", "local*", "minikube",
                            "docker-desktop", "kind-*">>,
             RequireConfirmation |-> <<>>,
             BlockedActions |-> <<>>]]]

\* the configuration of TestGetClusterRules_Priority
PriorityConfig ==
    [Defaults |-> [RequireConfirmation |-> FALSE, BlockedActions |-> <<>>],
     Clusters |->
        [k \in {"special-prod"} |->
            [Tier |-> "special",
             RequireConfirmation |-> <<"scale">>,
             BlockedActions |-> <<"delete">>]],
     Tiers |->
        [production |->
            [Patterns |-> <<"*-prod">>,
             RequireConfirmation |-> <<"delete", "drain">>,
             BlockedActions |-> <<>>]]]

\* what "init --non-interactive --blocked-actions delete" writes
GlobalBlockConfig == [Default EXCEPT !.Defaults.BlockedActions = <<"delete">>]

\* a configuration whose lists overlap and use the alias tokens
StrictConfig ==
    [Defaults |-> [RequireConfirmation |-> TRUE, BlockedActions |-> <<"Scale">>],
     Clusters |->
        [k \in {"prod-*"} |->
            [Tier |-> "production",
             RequireConfirmation |-> <<"delete", "drain", "edit", "apply">>,
             BlockedActions |-> <<"scale", "delete">>]],
     Tiers |->
        [development |->
            [Patterns |-> <<"minikube", "dev-*">>,
             RequireConfirmation |-> <<"apply">>,
             BlockedActions |-> <<"drain">>]]]

\* EmptyConfig is what an empty but well-formed file parses to
MainConfigs ==
    {Default, ExampleConfig, PriorityConfig, GlobalBlockConfig, StrictConfig,
     EmptyConfig}

\* the state of the file at ConfigPath(); an invalid file is one with a
\* syntax error (nothing decoded) or with a value of the wrong type after
\* the defaults section (the defaults decoded)
ConfigFiles ==
    {[kind |-> "missing", content |-> EmptyConfig],
     [kind |-> "unreadable", content |-> EmptyConfig],
     [kind |-> "invalid", content |-> EmptyConfig],
     [kind |-> "invalid",
      content |-> [EmptyConfig EXCEPT !.Defaults.BlockedActions = <<"delete">>]]}
    \cup {[kind |-> "valid", content |-> c] : c \in MainConfigs}

\* before config.Load has run
NoFile == [kind |-> "unread", content |-> EmptyConfig]
NotLoaded == [cfg |-> <<>>, err |-> "unread"]

MainContexts ==
    {"prod-us-east-1", "minikube", "special-prod", "staging-eu",
     "unknown-cluster", "dev-prod"}

\* what kubectl.GetCurrentContext() can return
ContextResults ==
    {[context |-> "", err |-> TRUE]}
    \cup {[context |-> c, err |-> FALSE] : c \in MainContexts}

\* what reader.ReadString('\n') can return at the prompt
PromptReads ==
    {[line |-> l, err |-> FALSE] :
        l \in {"y\n", "yes\n", "Y\n", " YES \r\n", "n\n", "\n", "yes please\n"}}
    \cup {[line |-> "y", err |-> TRUE], [line |-> "", err |-> TRUE]}

\* before the prompt
NoRead == [line |-> "", err |-> FALSE]
NoStdin == [terminal |-> FALSE, reads |-> 0, read |-> NoRead]

\* how the kubectl child of Execute can end: it exits with a code, it is
\* killed by a signal, or it cannot be started
Children ==
    {[kind |-> "exited", code |-> c] : c \in ExitCodes}
    \cup {[kind |-> "signaled", code |-> -1], [kind |-> "not-started", code |-> -1]}

\* before kubectl.Execute
NoChild == [kind |-> "none", code |-> -1, args |-> <<>>]

NoRules == [Tier |-> "", RequireConfirmation |-> <<>>, BlockedActions |-> <<>>]

----------------------------------------------------------------------------
(* main *)

RECURSIVE FilterYesFirst(_)
\* filteredArgs with only the first --yes or -y left out
FilterYesFirst(a) ==
    IF a = <<>> THEN <<>>
    ELSE IF Head(a) = "--yes" \/ Head(a) = "-y" THEN Tail(a)
    ELSE <<Head(a)>> \o FilterYesFirst(Tail(a))

RECURSIVE FilterYes(_)
\* filteredArgs: every token but --yes and -y, in order
FilterYes(a) ==
    IF a = <<>> THEN <<>>
    ELSE IF Head(a) = "--yes" \/ Head(a) = "-y" THEN FilterYes(Tail(a))
    ELSE <<Head(a)>> \o FilterYes(Tail(a))

\* hasYesFlag after the loop
HasYes(a) == \E i \in 1..Len(a) : a[i] = "--yes" \/ a[i] = "-y"

\* an exit status is the low eight bits of the code given to exit
ExitStatuses == 256

\* os.Exit(code)
Exit(code, how) ==
    /\ pc' = "done"
    /\ exitCode' = code % ExitStatuses
    /\ outcome' = how

\* (*exec.ExitError).ExitCode(): the exit code of the exited process, or -1
\* if it was terminated by a signal
ExitCode(ch) == IF ch.kind = "exited" THEN ch.code ELSE -1

\* kubectl.Execute that reports every failure as 1
KubectlExecuteFlat(ch) ==
    IF ch.kind = "exited" /\ ch.code = 0 THEN 0 ELSE 1

\* kubectl.Execute runs kubectl with the given arguments and returns the
\* exit code; cmd.Run() returns nil for a child that exited with 0, an
\* *exec.ExitError for one that exited otherwise or was killed, and another
\* error for one that could not be started
KubectlExecute(ch) ==
    IF ch.kind = "exited" /\ ch.code = 0 THEN 0
    ELSE IF ch.kind \in {"exited", "signaled"} THEN ExitCode(ch)
    ELSE 1

Init ==
    /\ pc = "start"
    /\ argv \in ArgVectors
    /\ args = argv
    /\ cfg = EmptyConfig
    /\ warned = FALSE
    /\ context = ""
    /\ hasYesFlag = FALSE
    /\ action = ""
    /\ rules = NoRules
    /\ rules2 = NoRules
    /\ blocked = FALSE
    /\ needsConfirm = FALSE
    /\ confirmed = FALSE
    /\ prompts = 0
    /\ execs = 0
    /\ exitCode = -1
    /\ outcome = "running"
    /\ file = NoFile
    /\ loaded = NotLoaded
    /\ contextErr = FALSE
    /\ stdin = NoStdin
    /\ child = NoChild
    /\ severity = ""
    /\ description = ""

\* --version, --help or no argument, --config-path
HandleFlags ==
    /\ pc = "start"
    /\ IF Len(args) > 0 /\ (args[1] = "--version" \/ args[1] = "-v")
       THEN Exit(0, "version")
       ELSE IF Len(args) = 0 \/ args[1] = "--help" \/ args[1] = "-h"
       THEN Exit(0, "help")
       ELSE IF args[1] = "--config-path"
       THEN Exit(0, "config-path")
       ELSE /\ pc' = "init"
            /\ UNCHANGED <<exitCode, outcome>>
    /\ UNCHANGED <<file, loaded, contextErr, stdin, child, severity,
                   description,
                   argv, args, cfg, warned, context, hasYesFlag, action, rules,
                   rules2, blocked, needsConfirm, confirmed, prompts, execs>>

\* the init command: handleInit exits 1 on an unknown flag or a failed Run,
\* and main returns (exit code 0) otherwise
HandleInit ==
    /\ pc = "init"
    /\ IF Len(args) > 0 /\ args[1] = "init"
       THEN \E code \in {0, 1} : Exit(code, "init")
       ELSE /\ pc' = "checkKubectl"
            /\ UNCHANGED <<exitCode, outcome>>
    /\ UNCHANGED <<file, loaded, contextErr, stdin, child, severity,
                   description,
                   argv, args, cfg, warned, context, hasYesFlag, action, rules,
                   rules2, blocked, needsConfirm, confirmed, prompts, execs>>

\* kubectl.CheckKubectlAvailable()
CheckKubectlAvailable ==
    /\ pc = "checkKubectl"
    /\ \E available \in BOOLEAN :
        IF ~available
        THEN Exit(1, "kubectl-missing")
        ELSE /\ pc' = "loadConfig"
             /\ UNCHANGED <<exitCode, outcome>>
    /\ UNCHANGED <<file, loaded, contextErr, stdin, child, severity,
                   description,
                   argv, args, cfg, warned, context, hasYesFlag, action, rules,
                   rules2, blocked, needsConfirm, confirmed, prompts, execs>>

\* config.Load(), with Default() on an error and a warning unless the file
\* does not exist
LoadConfig ==
    /\ pc = "loadConfig"
    /\ \E f \in ConfigFiles :
        LET r == Load(f)
        IN  /\ file' = f
            /\ loaded' = r
            /\ cfg' = IF r.err # "nil" THEN Default ELSE r.cfg[1]
            /\ warned' = (r.err # "nil" /\ r.err # "notexist")
    /\ pc' = "getContext"
    /\ UNCHANGED <<contextErr, stdin, child, severity,
                   description,
                   argv, args, context, hasYesFlag, action, rules, rules2,
                   blocked, needsConfirm, confirmed, prompts, execs, exitCode,
                   outcome>>

\* GetCurrentContext with main going on, with an empty context, on an error
GetCurrentContextIgnoringError ==
    /\ pc = "getContext"
    /\ \E r \in ContextResults :
        /\ contextErr' = r.err
        /\ context' = r.context
    /\ pc' = "extractYes"
    /\ UNCHANGED <<exitCode, outcome>>
    /\ UNCHANGED <<file, loaded, stdin, child, severity,
                   description,
                   argv, args, cfg, warned, hasYesFlag, action, rules, rules2,
                   blocked, needsConfirm, confirmed, prompts, execs>>

\* kubectl.GetCurrentContext()
GetCurrentContext ==
    /\ pc = "getContext"
    /\ \E r \in ContextResults :
        /\ contextErr' = r.err
        /\ IF r.err
           THEN /\ Exit(1, "no-context")
                /\ UNCHANGED context
           ELSE /\ context' = r.context
                /\ pc' = "extractYes"
                /\ UNCHANGED <<exitCode, outcome>>
    /\ UNCHANGED <<file, loaded, stdin, child, severity,
                   description,
                   argv, args, cfg, warned, hasYesFlag, action, rules, rules2,
                   blocked, needsConfirm, confirmed, prompts, execs>>

\* Extract --yes/-y flags before processing
ExtractYesFlag ==
    /\ pc = "extractYes"
    /\ hasYesFlag' = HasYes(args)
    /\ args' = FilterYes(args)
    /\ pc' = "detect"
    /\ UNCHANGED <<file, loaded, contextErr, stdin, child, severity,
                   description,
                   argv, cfg, warned, context, action, rules, rules2, blocked,
                   needsConfirm, confirmed, prompts, execs, exitCode, outcome>>

\* action := rbac.DetectAction(args)
Detect ==
    /\ pc = "detect"
    /\ action' = DetectAction(args)
    /\ pc' = "resolve"
    /\ UNCHANGED <<file, loaded, contextErr, stdin, child, severity,
                   description,
                   argv, args, cfg, warned, context, hasYesFlag, rules, rules2,
                   blocked, needsConfirm, confirmed, prompts, execs, exitCode,
                   outcome>>

\* rules := cfg.GetClusterRules(context)
Resolve ==
    /\ pc = "resolve"
    /\ \E co \in Orders(DOMAIN cfg.Clusters), to \in Orders(DOMAIN cfg.Tiers) :
        rules' = GetClusterRules(cfg, context, co, to)
    /\ pc' = "checkBlocked"
    /\ UNCHANGED <<file, loaded, contextErr, stdin, child, severity,
                   description,
                   argv, args, cfg, warned, context, hasYesFlag, action, rules2,
                   blocked, needsConfirm, confirmed, prompts, execs, exitCode,
                   outcome>>

\* CheckBlocked with the skip flag also skipping the block
CheckBlockedUnlessYes ==
    /\ pc = "checkBlocked"
    /\ blocked' = IsBlocked(action, rules)
    /\ IF blocked' /\ ~hasYesFlag
       THEN Exit(1, "blocked")
       ELSE /\ pc' = "checkConfirm"
            /\ UNCHANGED <<exitCode, outcome>>
    /\ UNCHANGED <<file, loaded, contextErr, stdin, child, severity,
                   description,
                   argv, args, cfg, warned, context, hasYesFlag, action, rules,
                   rules2, needsConfirm, confirmed, prompts, execs>>

\* Check if action is blocked
CheckBlocked ==
    /\ pc = "checkBlocked"
    /\ blocked' = IsBlocked(action, rules)
    /\ IF blocked'
       THEN Exit(1, "blocked")
       ELSE /\ pc' = "checkConfirm"
            /\ UNCHANGED <<exitCode, outcome>>
    /\ UNCHANGED <<file, loaded, contextErr, stdin, child, severity,
                   description,
                   argv, args, cfg, warned, context, hasYesFlag, action, rules,
                   rules2, needsConfirm, confirmed, prompts, execs>>

\* CheckConfirmation that prompts although the skip flag was given
CheckConfirmationIgnoringYes ==
    /\ pc = "checkConfirm"
    /\ needsConfirm' = RequiresConfirmation(action, rules)
    /\ pc' = IF needsConfirm' THEN "prompt" ELSE "execute"
    /\ UNCHANGED <<file, loaded, contextErr, stdin, child, severity,
                   description,
                   argv, args, cfg, warned, context, hasYesFlag, action, rules,
                   rules2, blocked, confirmed, prompts, execs, exitCode, outcome>>

\* Check if confirmation is required
CheckConfirmation ==
    /\ pc = "checkConfirm"
    /\ needsConfirm' = RequiresConfirmation(action, rules)
    /\ pc' = IF needsConfirm' /\ ~hasYesFlag THEN "prompt" ELSE "execute"
    /\ UNCHANGED <<file, loaded, contextErr, stdin, child, severity,
                   description,
                   argv, args, cfg, warned, context, hasYesFlag, action, rules,
                   rules2, blocked, confirmed, prompts, execs, exitCode, outcome>>

\* Prompt that runs kubectl whatever the answer
PromptIgnoringAnswer ==
    /\ pc = "prompt"
    /\ description' = DescribeAction(action)
    /\ prompts' = prompts + 1
    /\ \E stdinTerminal \in BOOLEAN, read \in PromptReads :
        /\ stdin' = [terminal |-> stdinTerminal,
                     reads |-> PromptConfirmationReads(stdinTerminal),
                     read |-> read]
        /\ confirmed' = PromptConfirmation(stdinTerminal, read)
    /\ pc' = "execute"
    /\ UNCHANGED <<exitCode, outcome>>
    /\ UNCHANGED <<file, loaded, contextErr, child, severity,
                   argv, args, cfg, warned, context, hasYesFlag, action, rules,
                   rules2, blocked, needsConfirm, execs>>

\* the confirmation header with rbac.DescribeAction(action), then
\* confirmed := output.PromptConfirmation("Do you want to proceed?")
Prompt ==
    /\ pc = "prompt"
    /\ description' = DescribeAction(action)
    /\ prompts' = prompts + 1
    /\ \E stdinTerminal \in BOOLEAN, read \in PromptReads :
        /\ stdin' = [terminal |-> stdinTerminal,
                     reads |-> PromptConfirmationReads(stdinTerminal),
                     read |-> read]
        /\ confirmed' = PromptConfirmation(stdinTerminal, read)
    /\ IF ~confirmed'
       THEN Exit(0, "cancelled")
       ELSE /\ pc' = "execute"
            /\ UNCHANGED <<exitCode, outcome>>
    /\ UNCHANGED <<file, loaded, contextErr, child, severity,
                   argv, args, cfg, warned, context, hasYesFlag, action, rules,
                   rules2, blocked, needsConfirm, execs>>

\* exitCode := kubectl.Execute(args); os.Exit(exitCode)
Execute ==
    /\ pc = "execute"
    /\ execs' = execs + 1
    /\ \E ch \in Children :
        /\ child' = [kind |-> ch.kind, code |-> ch.code, args |-> args]
        /\ Exit(KubectlExecute(ch), "executed")
    /\ UNCHANGED <<file, loaded, contextErr, stdin, severity,
                   description,
                   argv, args, cfg, warned, context, hasYesFlag, action, rules,
                   rules2, blocked, needsConfirm, confirmed, prompts>>

Next ==
    \/ HandleFlags
    \/ HandleInit
    \/ CheckKubectlAvailable
    \/ LoadConfig
    \/ GetCurrentContext
    \/ ExtractYesFlag
    \/ Detect
    \/ Resolve
    \/ CheckBlocked
    \/ CheckConfirmation
    \/ Prompt
    \/ Execute

Spec == Init /\ [][Next]_vars

\* main runs to its exit: no step of it waits on another process for ever
FairSpec == Spec /\ WF_vars(Next)

----------------------------------------------------------------------------
(* the run of main: block, confirm, execute *)

\* the decision of the run, once the block and confirmation checks are made
Decision ==
    IF outcome = "blocked" THEN "Blocked"
    ELSE IF pc = "prompt" \/ prompts > 0 THEN "ConfirmationRequired"
    ELSE IF pc = "execute" \/ outcome = "executed" THEN "Allowed"
    ELSE "none"

\* C1: kubectl is executed only if the detected action is not blocked by the
\* resolved rules and (it needs no confirmation, or a skip flag was given, or
\* the user confirmed at the prompt); a blocked action is never executed.
C1_ExecutedOnlyIfAllowed ==
    execs > 0 =>
        /\ ~IsBlocked(action, rules)
        /\ \/ ~RequiresConfirmation(action, rules)
           \/ hasYesFlag
           \/ confirmed

\* a run that executed kubectl after the user confirmed at the prompt
C1_Witness ==
    /\ execs = 1
    /\ RequiresConfirmation(action, rules)
    /\ ~hasYesFlag
    /\ confirmed

\* C2: an action matching both blocked_actions and require_confirmation ends
\* Blocked: no prompt, kubectl not run, exit code 1, also with a skip flag.
C2_BlockedBeforeConfirmation ==
    (IsBlocked(action, rules) /\ RequiresConfirmation(action, rules)) =>
        /\ prompts = 0
        /\ execs = 0
        /\ pc \in {"checkBlocked", "done"}
        /\ pc = "done" => (outcome = "blocked" /\ exitCode = 1)

\* a finished run with the action in both lists and a skip flag
C2_Witness ==
    /\ pc = "done"
    /\ hasYesFlag
    /\ IsBlocked(action, rules)
    /\ RequiresConfirmation(action, rules)
    /\ outcome = "blocked"

\* C3: once kubectl is available and the context is read, an action that is
\* not blocked and either needs no confirmation or comes with a skip flag
\* leads to kubectl being executed, with no confirmation prompt shown.
C3_SkipFlagReachesKubectl ==
    (/\ pc = "checkBlocked"
     /\ ~IsBlocked(action, rules)
     /\ (~RequiresConfirmation(action, rules) \/ hasYesFlag))
    ~> (pc = "done" /\ outcome = "executed" /\ execs = 1 /\ prompts = 0)

\* a run where the skip flag bypassed a required confirmation
C3_Witness ==
    /\ pc = "done"
    /\ execs = 1
    /\ prompts = 0
    /\ hasYesFlag
    /\ RequiresConfirmation(action, rules)

\* C4: with Default() and args [delete, pod, foo]: context prod-us-east-1
\* without a skip flag gives ConfirmationRequired with tier production, with
\* the skip flag Allowed; context minikube gives Allowed (tier development).
C4_EndToEndDefault ==
    (/\ cfg = Default
     /\ args = <<"delete", "pod", "foo">>
     /\ pc \in {"prompt", "execute", "done"}
     /\ outcome \in {"running", "blocked", "cancelled", "executed"}) =>
        /\ (context = "prod-us-east-1" /\ ~hasYesFlag) =>
                (Decision = "ConfirmationRequired" /\ rules.Tier = "production")
        /\ (context = "prod-us-east-1" /\ hasYesFlag) => Decision = "Allowed"
        /\ context = "minikube" =>
                (Decision = "Allowed" /\ rules.Tier = "development")

\* the prompt of the first scenario is reached
C4_Witness ==
    /\ cfg = Default
    /\ args = <<"delete", "pod", "foo">>
    /\ context = "prod-us-east-1"
    /\ ~hasYesFlag
    /\ pc = "prompt"
    /\ rules.Tier = "production"

----------------------------------------------------------------------------
(* GetClusterRules on its own: bounded configurations and context names *)

MaxClusters == 2
MaxPatterns == 2

\* sequences over S of length at most n
SeqsUpTo(S, n) == UNION {[1..k -> S] : k \in 0..n}

ClusterKeyPool == {"prod-a", "prod-*", "*-a", "dev-?"}

\* the rule each key of the pool carries: "prod-*" is labelled with the name
\* of a tier whose lists differ, and "*-a" is labelled default, as the init
\* wizard writes it when the user types that tier
ClusterRuleOf(k) ==
    CASE k = "prod-a" -> [Tier |-> "special",
                           RequireConfirmation |-> <<"scale">>,
                           BlockedActions |-> <<"delete">>]
      [] k = "prod-*" -> [Tier |-> "production",
                           RequireConfirmation |-> <<"delete">>,
                           BlockedActions |-> <<"drain">>]
      [] k = "*-a"    -> [Tier |-> "default",
                           RequireConfirmation |-> <<>>,
                           BlockedActions |-> <<>>]
      [] OTHER        -> [Tier |-> "development",
                           RequireConfirmation |-> <<"apply">>,
                           BlockedActions |-> <<>>]

PatternPool == {"prod-*", "*-a", "dev-*"}

ResolveConfigs ==
    {[Defaults |-> [RequireConfirmation |-> rc, BlockedActions |-> ba],
      Clusters |-> [k \in ks |-> ClusterRuleOf(k)],
      Tiers |->
        [t \in ts |->
            IF t = "production"
            THEN [Patterns |-> pp,
                  RequireConfirmation |-> <<"delete", "drain">>,
                  BlockedActions |-> <<"rollout">>]
            ELSE [Patterns |-> <<"dev-*">>,
                  RequireConfirmation |-> <<"edit">>,
                  BlockedActions |-> <<>>]]] :
        rc \in BOOLEAN,
        ba \in {<<>>, <<"exec">>},
        ks \in {x \in SUBSET ClusterKeyPool : Cardinality(x) <= MaxClusters},
        ts \in {{"production"}, {"production", "development"}},
        pp \in SeqsUpTo(PatternPool, MaxPatterns)}

ResolveContexts == {"prod-a", "prod-b", "dev-a", "qa"}

InitResolve ==
    /\ pc = "r_call"
    /\ cfg \in ResolveConfigs
    /\ context \in ResolveContexts
    /\ argv = <<>>
    /\ args = <<>>
    /\ warned = FALSE
    /\ hasYesFlag = FALSE
    /\ action = ""
    /\ rules = NoRules
    /\ rules2 = NoRules
    /\ blocked = FALSE
    /\ needsConfirm = FALSE
    /\ confirmed = FALSE
    /\ prompts = 0
    /\ execs = 0
    /\ exitCode = -1
    /\ outcome = "running"
    /\ file = NoFile
    /\ loaded = NotLoaded
    /\ contextErr = FALSE
    /\ stdin = NoStdin
    /\ child = NoChild
    /\ severity = ""
    /\ description = ""

\* a call of cfg.GetClusterRules(context)
ResolveOnce ==
    /\ pc = "r_call"
    /\ \E co \in Orders(DOMAIN cfg.Clusters), to \in Orders(DOMAIN cfg.Tiers) :
        rules' = GetClusterRules(cfg, context, co, to)
    /\ pc' = "r_once"
    /\ UNCHANGED <<file, loaded, contextErr, stdin, child, severity,
                   description,
                   argv, args, cfg, warned, context, hasYesFlag, action, rules2,
                   blocked, needsConfirm, confirmed, prompts, execs, exitCode,
                   outcome>>

\* a second call on the same configuration and context
ResolveAgain ==
    /\ pc = "r_once"
    /\ \E co \in Orders(DOMAIN cfg.Clusters), to \in Orders(DOMAIN cfg.Tiers) :
        rules2' = GetClusterRules(cfg, context, co, to)
    /\ pc' = "r_twice"
    /\ UNCHANGED <<file, loaded, contextErr, stdin, child, severity,
                   description,
                   argv, args, cfg, warned, context, hasYesFlag, action, rules,
                   blocked, needsConfirm, confirmed, prompts, execs, exitCode,
                   outcome>>

NextResolve == ResolveOnce \/ ResolveAgain

SpecResolve == InitResolve /\ [][NextResolve]_vars

\* the keys of clusters that match the context as globs
GlobKeys == {k \in DOMAIN cfg.Clusters : matchGlob(k, context)}

\* the tiers with a pattern that matches the context
MatchingTiers ==
    {t \in DOMAIN cfg.Tiers :
        \E j \in 1..Len(cfg.Tiers[t].Patterns) :
            matchGlob(cfg.Tiers[t].Patterns[j], context)}

ExactMatch == context \in DOMAIN cfg.Clusters

NothingMatches == ~ExactMatch /\ GlobKeys = {} /\ MatchingTiers = {}

\* the rules authored on the clusters entry k, as a resolved rule set
AsAuthoredOnCluster(k) ==
    [Tier |-> cfg.Clusters[k].Tier,
     RequireConfirmation |-> cfg.Clusters[k].RequireConfirmation,
     BlockedActions |-> cfg.Clusters[k].BlockedActions]

\* the rules authored on tier t, as a resolved rule set
AsAuthoredOnTier(t) ==
    [Tier |-> t,
     RequireConfirmation |-> cfg.Tiers[t].RequireConfirmation,
     BlockedActions |-> cfg.Tiers[t].BlockedActions]

\* the rule set the fallback is documented to give
FallbackRules ==
    [Tier |-> "default",
     RequireConfirmation |->
        IF cfg.Defaults.RequireConfirmation THEN <<"delete", "drain">> ELSE <<>>,
     BlockedActions |-> cfg.Defaults.BlockedActions]

\* C5: strict precedence exact cluster key > cluster glob key > tier pattern >
\* defaults: an exact key wins over every glob key and tier pattern, a tier is
\* used only if no cluster key matches, the defaults only if nothing matches.
C5_ResolutionPrecedence ==
    pc # "r_call" =>
        /\ ExactMatch => rules = AsAuthoredOnCluster(context)
        /\ (~ExactMatch /\ GlobKeys # {}) =>
                rules \in {AsAuthoredOnCluster(k) : k \in GlobKeys}
        /\ (~ExactMatch /\ GlobKeys = {} /\ MatchingTiers # {}) =>
                rules \in {AsAuthoredOnTier(t) : t \in MatchingTiers}
        /\ NothingMatches => rules = FallbackRules

\* the exact key wins although a glob key and a tier pattern match as well
C5_Witness ==
    /\ pc = "r_once"
    /\ ExactMatch
    /\ GlobKeys \ {context} # {}
    /\ MatchingTiers # {}
    /\ rules.Tier = "special"

\* C6 as claimed: no match gives tier "default" with the defaults' blocked
\* list and [delete, drain] or nothing to confirm, and that rule set is
\* produced only when nothing matches.
C6_DefaultOnlyWhenNothingMatches ==
    pc # "r_call" =>
        /\ NothingMatches => rules = FallbackRules
        /\ rules = FallbackRules => NothingMatches

\* no clusters entry is labelled default and no tier is named default
NoDefaultLabel ==
    /\ \A k \in DOMAIN cfg.Clusters : cfg.Clusters[k].Tier # "default"
    /\ "default" \notin DOMAIN cfg.Tiers

\* C6 amended: no match gives the fallback rule set; and when no clusters
\* entry is labelled default and no tier is named default, tier "default" is
\* produced only when nothing matches.
C6_DefaultFallback ==
    pc # "r_call" =>
        /\ NothingMatches => rules = FallbackRules
        /\ (rules.Tier = "default" /\ NoDefaultLabel) => NothingMatches

\* the fallback with the global confirmation flag set and a global block
C6_Witness ==
    /\ pc = "r_once"
    /\ NothingMatches
    /\ cfg.Defaults.RequireConfirmation
    /\ cfg.Defaults.BlockedActions = <<"exec">>
    /\ DOMAIN cfg.Clusters # {}
    /\ rules = [Tier |-> "default",
                RequireConfirmation |-> <<"delete", "drain">>,
                BlockedActions |-> <<"exec">>]

\* C7: two calls of GetClusterRules on the same configuration and context
\* return identical ResolvedRules.
C7_ResolveTwiceIdentical == pc = "r_twice" => rules = rules2

----------------------------------------------------------------------------
(* the global block list in a run of main *)

\* the action matches a token of defaults.blocked_actions
GloballyBlocked ==
    \E i \in 1..Len(cfg.Defaults.BlockedActions) :
        matchAction(cfg.Defaults.BlockedActions[i], action)

\* C9: an action listed in defaults.blocked_actions is blocked for every
\* context, also one that matches a clusters entry or a tier pattern, and
\* kubectl is never run for it.
C9_GlobalBlockAlwaysDenied ==
    (GloballyBlocked /\ pc \in {"checkConfirm", "prompt", "execute", "done"}) =>
        /\ execs = 0
        /\ outcome \in {"blocked", "running"}
        /\ pc \in {"done"}

----------------------------------------------------------------------------
(* IsBlocked and RequiresConfirmation on their own *)

MaxRules == 2

RuleTokens ==
    {"delete", "drain", "edit", "apply", "cordon", "patch", "create", "scale",
     "exec", "rollout", "DRAIN", "Apply", "DELETE"}

MatchActions ==
    {ActionDelete, ActionDrain, ActionCordon, ActionScale, ActionEdit,
     ActionPatch, ActionApply, ActionCreate, ActionExec, ActionRollout,
     ActionUnknown, "get", "DELETE", "Cordon"}

InitMatch ==
    /\ pc = "m_call"
    /\ action \in MatchActions
    /\ \E l \in SeqsUpTo(RuleTokens, MaxRules) :
        rules \in {[Tier |-> "t", RequireConfirmation |-> l, BlockedActions |-> <<>>],
                   [Tier |-> "t", RequireConfirmation |-> <<>>, BlockedActions |-> l]}
    /\ cfg = EmptyConfig
    /\ context = ""
    /\ argv = <<>>
    /\ args = <<>>
    /\ warned = FALSE
    /\ hasYesFlag = FALSE
    /\ rules2 = NoRules
    /\ blocked = FALSE
    /\ needsConfirm = FALSE
    /\ confirmed = FALSE
    /\ prompts = 0
    /\ execs = 0
    /\ exitCode = -1
    /\ outcome = "running"
    /\ file = NoFile
    /\ loaded = NotLoaded
    /\ contextErr = FALSE
    /\ stdin = NoStdin
    /\ child = NoChild
    /\ severity = ""
    /\ description = ""

\* a call of rbac.IsBlocked(action, rules)
CallIsBlocked ==
    /\ pc = "m_call"
    /\ blocked' = IsBlocked(action, rules)
    /\ pc' = "m_blocked"
    /\ UNCHANGED <<file, loaded, contextErr, stdin, child, severity,
                   description,
                   argv, args, cfg, warned, context, hasYesFlag, action, rules,
                   rules2, needsConfirm, confirmed, prompts, execs, exitCode,
                   outcome>>

\* a call of rbac.RequiresConfirmation(action, rules)
CallRequiresConfirmation ==
    /\ pc = "m_blocked"
    /\ needsConfirm' = RequiresConfirmation(action, rules)
    /\ pc' = "m_done"
    /\ UNCHANGED <<file, loaded, contextErr, stdin, child, severity,
                   description,
                   argv, args, cfg, warned, context, hasYesFlag, action, rules,
                   rules2, blocked, confirmed, prompts, execs, exitCode, outcome>>

NextMatch == CallIsBlocked \/ CallRequiresConfirmation

SpecMatch == InitMatch /\ [][NextMatch]_vars

\* the rule tokens with the actions each is documented to cover
AliasPairs ==
    {<<"drain", "drain">>, <<"drain", "cordon">>,
     <<"edit", "edit">>, <<"edit", "patch">>,
     <<"apply", "apply">>, <<"apply", "create">>}

\* C10: in IsBlocked and RequiresConfirmation a rule token drain matches the
\* actions drain and cordon, edit matches edit and patch, and apply matches
\* apply and create.
C10_AliasExpansion ==
    pc = "m_done" =>
        \A p \in AliasPairs :
            action = p[2] =>
                /\ p[1] \in Range(rules.BlockedActions) => blocked
                /\ p[1] \in Range(rules.RequireConfirmation) => needsConfirm

\* RequiresConfirmation(cordon, {require_confirmation: [drain]}) is true
C10_Witness ==
    /\ pc = "m_done"
    /\ action = "cordon"
    /\ rules.RequireConfirmation = <<"drain">>
    /\ needsConfirm

\* a rule list with every token lower-cased
RECURSIVE LowerAll(_)
LowerAll(l) == IF l = <<>> THEN <<>> ELSE <<ToLower(l[1])>> \o LowerAll(Tail(l))

\* the rule set with every rule token lower-cased
LowerRules(r) ==
    [r EXCEPT !.RequireConfirmation = LowerAll(r.RequireConfirmation),
              !.BlockedActions = LowerAll(r.BlockedActions)]

\* C11: matching ignores case on both sides: the results of IsBlocked and
\* RequiresConfirmation for an action and a rule set are the results for the
\* lower-cased action and the lower-cased rule tokens; an action DELETE is
\* blocked by a rule delete, and a rule DELETE blocks the action delete.
C11_CaseInsensitive ==
    pc = "m_done" =>
        /\ blocked = IsBlocked(ToLower(action), LowerRules(rules))
        /\ needsConfirm = RequiresConfirmation(ToLower(action), LowerRules(rules))
        /\ (action = "DELETE" /\ "delete" \in Range(rules.BlockedActions)) => blocked
        /\ (action = "delete" /\ "DELETE" \in Range(rules.BlockedActions)) => blocked

\* IsBlocked("DELETE", {blocked_actions: [delete]}) has returned true
C11_Witness ==
    /\ pc = "m_done"
    /\ action = "DELETE"
    /\ rules.BlockedActions = <<"delete">>
    /\ blocked

\* the pairs of lower-cased rule token and lower-cased action that match
\* without being equal
OneWayAliases ==
    {<<"drain", "cordon">>, <<"edit", "patch">>, <<"apply", "create">>}

\* rule token r covers action a: the same token ignoring case, or an alias
Covers(r, a) ==
    LET p == <<ToLower(r), ToLower(a)>>
    IN  p[1] = p[2] \/ p \in OneWayAliases

\* C12: apart from the three aliases a rule token matches an action only when
\* they are the same token ignoring case: the rule tokens delete, scale, exec
\* and rollout match only themselves, a rule cordon does not match the action
\* drain, patch does not match edit, create does not match apply, and with an
\* empty rule list IsBlocked and RequiresConfirmation are false.
C12_OnlyAliasesAndSelf ==
    pc = "m_done" =>
        /\ blocked = (\E r \in Range(rules.BlockedActions) : Covers(r, action))
        /\ needsConfirm = (\E r \in Range(rules.RequireConfirmation) : Covers(r, action))
        /\ \A t \in {"delete", "scale", "exec", "rollout"} :
              (Range(rules.BlockedActions) = {t} /\ blocked) => ToLower(action) = t
        /\ \A p \in OneWayAliases :
              (Range(rules.BlockedActions) = {p[2]} /\ action = p[1]) => ~blocked
        /\ rules.BlockedActions = <<>> => ~blocked
        /\ rules.RequireConfirmation = <<>> => ~needsConfirm

\* IsBlocked(drain, {blocked_actions: [cordon]}) has returned false
C12_Witness ==
    /\ pc = "m_done"
    /\ action = "drain"
    /\ rules.BlockedActions = <<"cordon">>
    /\ rules.RequireConfirmation = <<>>
    /\ ~blocked
    /\ ~needsConfirm

----------------------------------------------------------------------------
(* rbac.DetectAction on its own *)

MaxArgs == 4

\* flags that take a value (listed, unlisted), a flag without a value, a
\* --flag=value unit, verbs of the mapping, a passthrough verb and a value
DetectTokens ==
    {"-n", "--as", "--force", "--namespace=dev", "delete", "uncordon", "get",
     "default"}

\* the argument vectors of TestDetectAction
TestDetectActionArgs ==
    {<<"delete", "pod", "foo">>,
     <<"get", "pods">>,
     <<"drain", "node-1">>,
     <<"scale", "deployment/app", "--replicas=3">>,
     <<"-n", "default", "delete", "configmap", "foo">>,
     <<"--namespace", "kube-system", "delete", "pod", "bar">>,
     <<"--namespace=production", "delete", "deployment", "app">>,
     <<"-n", "default", "-l", "app=test", "delete", "pods">>,
     <<"-o", "wide", "get", "pods">>,
     <<"--context", "prod-cluster", "-n", "default", "delete", "svc", "my-svc">>,
     <<"delete", "pod", "foo", "--grace-period=0", "--force">>,
     <<"drain", "node-1", "--ignore-daemonsets", "--delete-emptydir-data">>,
     <<>>,
     <<"-n", "default">>,
     <<"cordon", "node-1">>,
     <<"uncordon", "node-1">>,
     <<"exec", "-it", "pod-name", "--", "bash">>,
     <<"apply", "-f", "deployment.yaml">>,
     <<"create", "namespace", "test">>,
     <<"rollout", "restart", "deployment/app">>,
     <<"patch", "deployment", "app", "-p", "{\"spec\":{\"replicas\":3}}">>,
     <<"edit", "deployment", "app">>,
     <<"-n", "production", "--selector", "app=legacy", "delete", "pods">>,
     <<"--kubeconfig", "/path/to/config", "delete", "pod", "test">>,
     <<"--namespace=prod", "--context", "my-cluster", "delete", "cm", "config">>,
     <<"describe", "pod", "foo">>,
     <<"logs", "-f", "pod-name">>,
     <<"port-forward", "svc/my-svc", "8080:80">>}

DetectVectors == SeqsUpTo(DetectTokens, MaxArgs) \cup TestDetectActionArgs

InitDetect ==
    /\ pc = "d_call"
    /\ args \in DetectVectors
    /\ argv = args
    /\ action = ""
    /\ cfg = EmptyConfig
    /\ context = ""
    /\ warned = FALSE
    /\ hasYesFlag = FALSE
    /\ rules = NoRules
    /\ rules2 = NoRules
    /\ blocked = FALSE
    /\ needsConfirm = FALSE
    /\ confirmed = FALSE
    /\ prompts = 0
    /\ execs = 0
    /\ exitCode = -1
    /\ outcome = "running"
    /\ file = NoFile
    /\ loaded = NotLoaded
    /\ contextErr = FALSE
    /\ stdin = NoStdin
    /\ child = NoChild
    /\ severity = ""
    /\ description = ""

\* a call of rbac.DetectAction(args)
CallDetectAction ==
    /\ pc = "d_call"
    /\ action' = DetectAction(args)
    /\ pc' = "d_done"
    /\ UNCHANGED <<file, loaded, contextErr, stdin, child, severity,
                   description,
                   argv, args, cfg, warned, context, hasYesFlag, rules, rules2,
                   blocked, needsConfirm, confirmed, prompts, execs, exitCode,
                   outcome>>

NextDetect == CallDetectAction

SpecDetect == InitDetect /\ [][NextDetect]_vars

\* a token that starts with '-'
IsFlagToken(t) == HasPrefix(t, "-")

RECURSIVE IsFlagValue(_, _)
\* token i of a is the value of a value-consuming flag: the token before it
\* is such a flag and is not itself the value of one
IsFlagValue(a, i) ==
    /\ i > 1
    /\ a[i - 1] \in flagsWithValues
    /\ ~IsFlagValue(a, i - 1)

\* the positions of a that hold neither a flag nor the value of a flag
CommandPositions(a) ==
    {i \in 1..Len(a) : ~IsFlagToken(a[i]) /\ ~IsFlagValue(a, i)}

\* the position of the first non-flag token of a
FirstCommand(a) ==
    CHOOSE i \in CommandPositions(a) : \A j \in CommandPositions(a) : i <= j

\* the closed mapping from verbs to actions, as documented
VerbMapping ==
    {<<"delete", "delete">>, <<"drain", "drain">>, <<"cordon", "cordon">>,
     <<"uncordon", "cordon">>, <<"scale", "scale">>, <<"edit", "edit">>,
     <<"patch", "patch">>, <<"apply", "apply">>, <<"create", "create">>,
     <<"exec", "exec">>, <<"rollout", "rollout">>}

DestructiveVerbs == {p[1] : p \in VerbMapping}

MappedAction(v) == (CHOOSE p \in VerbMapping : p[1] = v)[2]

\* the value-consuming flags that stand before position i of a
ValueFlagsBefore(a, i) ==
    {j \in 1..(i - 1) : a[j] \in flagsWithValues /\ ~IsFlagValue(a, j)}

\* C13: when the first non-flag token of the vector (after skipping flags,
\* --flag=value units and the values of value-consuming flags) is a
\* destructive verb, DetectAction returns the action mapped to that verb,
\* however many value-consuming flags with their values precede it.
C13_VerbAfterFlags ==
    (pc = "d_done" /\ CommandPositions(args) # {}) =>
        LET t == args[FirstCommand(args)]
        IN  t \in DestructiveVerbs => action = MappedAction(t)

\* DetectAction([-n, default, -l, app=test, delete, pods]) has returned delete
C13_Witness ==
    /\ pc = "d_done"
    /\ args = <<"-n", "default", "-l", "app=test", "delete", "pods">>
    /\ Cardinality(ValueFlagsBefore(args, FirstCommand(args))) = 2
    /\ action = "delete"

\* C14: for a vector that consists only of flags and of values of
\* value-consuming flags, the empty vector and a vector that ends in a
\* value-consuming flag without a value included, DetectAction returns unknown.
C14_OnlyFlagsUnknown ==
    (pc = "d_done" /\ CommandPositions(args) = {}) => action = ActionUnknown

\* DetectAction([--force, -n]) has returned unknown
C14_Witness ==
    /\ pc = "d_done"
    /\ args = <<"--force", "-n">>
    /\ action = ActionUnknown

\* C15: DetectAction decides on the first non-flag token t only: it returns
\* the mapped action when t is a verb of the mapping and t itself otherwise,
\* and the tokens after t do not change the result.
C15_FirstTokenDecides ==
    (pc = "d_done" /\ CommandPositions(args) # {}) =>
        LET k == FirstCommand(args)
            t == args[k]
        IN  /\ action = IF t \in DestructiveVerbs THEN MappedAction(t) ELSE t
            /\ action = DetectAction(SubSeq(args, 1, k))

\* DetectAction([uncordon, --force, delete]) has returned cordon
C15_Witness ==
    /\ pc = "d_done"
    /\ args = <<"uncordon", "--force", "delete">>
    /\ action = ActionCordon

----------------------------------------------------------------------------
(* the failure paths of main *)

\* the answer given on a line: the line trimmed and lower-cased
Answer(line) == ToLower(TrimSpace(line))

\* C16: the prompt fails closed: PromptConfirmation returns true only if
\* standard input is a terminal and the line read, trimmed and lower-cased,
\* is y or yes; without a terminal it returns false without reading; on a
\* read error or any other answer, the empty one included, it returns false;
\* and whenever it returns false main exits without running kubectl.
C16_PromptFailsClosed ==
    prompts > 0 =>
        /\ confirmed <=> /\ stdin.terminal
                         /\ ~stdin.read.err
                         /\ Answer(stdin.read.line) \in {"y", "yes"}
        /\ confirmed => stdin.read.line \in {"y\n", "yes\n", "Y\n", " YES \r\n"}
        /\ ~stdin.terminal => stdin.reads = 0
        /\ ~confirmed => (pc = "done" /\ outcome = "cancelled" /\ execs = 0)

\* standard input is a pipe that holds the line y: main has exited without
\* reading it and without running kubectl
C16_Witness ==
    /\ prompts = 1
    /\ ~stdin.terminal
    /\ stdin.read = [line |-> "y\n", err |-> FALSE]
    /\ stdin.reads = 0
    /\ ~confirmed
    /\ pc = "done"
    /\ outcome = "cancelled"
    /\ execs = 0

\* C17: if kubectl.GetCurrentContext returns an error, main exits with a
\* non-zero code before it detects the action, resolves the rules, decides
\* on a block or asks for confirmation, and kubectl is never run.
C17_NoContextExits ==
    contextErr =>
        /\ pc = "done"
        /\ outcome = "no-context"
        /\ exitCode > 0
        /\ action = ""
        /\ rules = NoRules
        /\ ~blocked
        /\ ~needsConfirm
        /\ prompts = 0
        /\ execs = 0
        /\ child = NoChild
    /\ severity = ""
    /\ description = ""

\* delete pod foo with no current context: main has exited with 1
C17_Witness ==
    /\ contextErr
    /\ argv = <<"delete", "pod", "foo">>
    /\ pc = "done"
    /\ exitCode = 1
    /\ execs = 0

\* config.Load has returned
Loaded == file # NoFile

\* C18: a failure to load the configuration never aborts the invocation:
\* the configuration used is the completely parsed file or exactly Default(),
\* never a partially parsed document; a missing file gives Default() without
\* a warning, an unparseable file gives Default() with a warning.
C18_LoadFailureFallsBack ==
    Loaded =>
        /\ pc # "loadConfig"
        /\ pc = "done" => outcome \in {"no-context", "blocked", "cancelled", "executed"}
        /\ \/ file.kind = "valid" /\ cfg = file.content /\ ~warned
           \/ file.kind # "valid" /\ cfg = Default
        /\ file.kind = "missing" => (cfg = Default /\ ~warned)
        /\ file.kind = "invalid" => (cfg = Default /\ warned)

\* a file whose defaults section was decoded before a type error: main goes
\* on with Default(), after a warning, and runs kubectl
C18_Witness ==
    /\ file.kind = "invalid"
    /\ file.content # EmptyConfig
    /\ cfg = Default
    /\ warned
    /\ outcome = "executed"

\* C19: LoadFromPath returns an error and no configuration when the file
\* does not exist and when its content is not parseable YAML; it returns a
\* configuration, with a nil error, only when the file was read and parsed
\* completely.
C19_LoadFromPathResult ==
    Loaded =>
        /\ file.kind \in {"missing", "invalid"} =>
              (loaded.err # "nil" /\ loaded.cfg = <<>>)
        /\ loaded.cfg # <<>> =>
              (file.kind = "valid" /\ loaded.cfg = <<file.content>> /\ loaded.err = "nil")
        /\ loaded.err = "nil" => loaded.cfg # <<>>

\* the file does not exist: an error and no configuration were returned
C19_Witness ==
    /\ file.kind = "missing"
    /\ loaded = [cfg |-> <<>>, err |-> "notexist"]

\* C20: whenever main runs kubectl, the exit code of the wrapper is the exit
\* code of kubectl, 0 on success and the child's code otherwise, and kubectl
\* is run at most once in an invocation.
C20_ExitCodePassedThrough ==
    /\ execs <= 1
    /\ execs = 1 <=> outcome = "executed"
    /\ execs = 1 <=> child # NoChild
    /\ (outcome = "executed" /\ child.kind = "exited") => exitCode = child.code

\* kubectl has exited with 2 and so has the wrapper
C20_Witness ==
    /\ outcome = "executed"
    /\ child.kind = "exited"
    /\ child.code = 2
    /\ exitCode = 2
    /\ execs = 1

----------------------------------------------------------------------------
(* matchGlob through GetClusterRules: one tier, bounded pattern lists *)

MaxGlobPatterns == 2

\* the patterns of TestMatchGlob, a '?' pattern and two patterns with a '['
\* that nothing closes
GlobPatterns ==
    {"*-prod", "prod-*", "*-*-prod", "minikube", "docker-desktop", "kind-*",
     "*-PROD", "dev-?", "[prod", "kind-[ab"}

\* the strings of TestMatchGlob and the malformed patterns themselves
GlobStrings ==
    {"cluster-prod", "my-app-prod", "prod-cluster", "us-east-prod", "prod",
     "minikube", "minikube-2", "docker-desktop", "kind-test", "kind-", "kind",
     "cluster-PROD", "dev-1", "[prod", "kind-[ab"}

GlobConfigs ==
    {[Defaults |-> [RequireConfirmation |-> FALSE, BlockedActions |-> <<>>],
      Clusters |-> <<>>,
      Tiers |->
        [t \in {"matched"} |->
            [Patterns |-> pp,
             RequireConfirmation |-> <<"delete">>,
             BlockedActions |-> <<>>]]] :
        pp \in SeqsUpTo(GlobPatterns, MaxGlobPatterns)}

InitGlob ==
    /\ pc = "r_call"
    /\ cfg \in GlobConfigs
    /\ context \in GlobStrings
    /\ argv = <<>>
    /\ args = <<>>
    /\ warned = FALSE
    /\ hasYesFlag = FALSE
    /\ action = ""
    /\ rules = NoRules
    /\ rules2 = NoRules
    /\ blocked = FALSE
    /\ needsConfirm = FALSE
    /\ confirmed = FALSE
    /\ prompts = 0
    /\ execs = 0
    /\ exitCode = -1
    /\ outcome = "running"
    /\ file = NoFile
    /\ loaded = NotLoaded
    /\ contextErr = FALSE
    /\ stdin = NoStdin
    /\ child = NoChild
    /\ severity = ""
    /\ description = ""

SpecGlob == InitGlob /\ [][NextResolve]_vars

\* the patterns of the one tier
TierPatterns == cfg.Tiers["matched"].Patterns

\* GetClusterRules has returned the tier: one of its patterns matched
TierMatched == rules.Tier = "matched"

\* a pattern that does not compile: it opens a character class and never
\* closes it
Malformed(p) == p \in {"[prod", "kind-[ab"}

\* C21: a pattern that fails to compile matches the string that equals it
\* literally, and resolution goes on with the remaining patterns.
C21_MalformedPatternIsLiteral ==
    (/\ pc = "r_once"
     /\ \E j \in 1..Len(TierPatterns) :
            Malformed(TierPatterns[j]) /\ context = TierPatterns[j])
        => TierMatched

\* strings.HasSuffix
HasSuffix(s, x) == Len(s) >= Len(x) /\ SubSeq(s, Len(s) - Len(x) + 1, Len(s)) = x

\* the positions of p that hold the character c
PositionsOf(p, c) == {i \in 1..Len(p) : Char(p, i) = c}

\* a pattern without a wildcard character
NoWildcard(p) == \A c \in {"*", "?", "[", "{", "\\"} : PositionsOf(p, c) = {}

\* a pattern whose only wildcard is a single '*'
OneStar(p) ==
    /\ Cardinality(PositionsOf(p, "*")) = 1
    /\ \A c \in {"?", "[", "{", "\\"} : PositionsOf(p, c) = {}

\* shell-glob matching of the whole string, for a pattern without a wildcard
\* or with a single '*': the string starts with the part before the '*' and
\* ends with the part after it, and the two parts do not overlap
ShellMatch(p, s) ==
    IF NoWildcard(p) THEN s = p
    ELSE LET k == CHOOSE i \in PositionsOf(p, "*") : TRUE
             before == SubSeq(p, 1, k - 1)
             after == SubSeq(p, k + 1, Len(p))
         IN  /\ Len(s) >= Len(before) + Len(after)
             /\ HasPrefix(s, before)
             /\ HasSuffix(s, after)

\* the table of TestMatchGlob: pattern, string, expected result
TestMatchGlobTable ==
    {<<"*-prod", "cluster-prod", TRUE>>,
     <<"*-prod", "my-app-prod", TRUE>>,
     <<"*-prod", "prod-cluster", FALSE>>,
     <<"prod-*", "prod-cluster", TRUE>>,
     <<"prod-*", "cluster-prod", FALSE>>,
     <<"*-*-prod", "us-east-prod", TRUE>>,
     <<"*-*-prod", "prod", FALSE>>,
     <<"minikube", "minikube", TRUE>>,
     <<"minikube", "minikube-2", FALSE>>,
     <<"docker-desktop", "docker-desktop", TRUE>>,
     <<"kind-*", "kind-test", TRUE>>,
     <<"kind-*", "kind-", TRUE>>,
     <<"kind-*", "kind", FALSE>>,
     <<"*-PROD", "cluster-prod", FALSE>>,
     <<"*-prod", "cluster-PROD", FALSE>>}

\* C22: matchGlob matches the whole string, case-sensitively: '*' matches any
\* run of characters, the empty one included (kind-* matches kind- but not
\* kind), a pattern is anchored at both ends (*-prod does not match
\* prod-cluster), and a pattern without a wildcard matches exactly the
\* identical string (minikube does not match minikube-2).
C22_ShellGlobSemantics ==
    pc = "r_once" =>
        /\ (\A j \in 1..Len(TierPatterns) :
                NoWildcard(TierPatterns[j]) \/ OneStar(TierPatterns[j]))
            => (TierMatched <=>
                    \E j \in 1..Len(TierPatterns) : ShellMatch(TierPatterns[j], context))
        /\ \A e \in TestMatchGlobTable :
              (TierPatterns = <<e[1]>> /\ context = e[2]) => (TierMatched <=> e[3])

\* the pattern kind-* has matched the string kind-
C22_Witness ==
    /\ pc = "r_once"
    /\ TierPatterns = <<"kind-*">>
    /\ context = "kind-"
    /\ TierMatched

----------------------------------------------------------------------------
(* the built-in configuration *)

\* C23: Default() has defaults.require_confirmation false and no blocked
\* actions, no clusters entries, and exactly the tiers production, staging
\* and development: production has the patterns *-prod, *-production, prod-*
\* and production-* and requires confirmation for delete and drain, staging
\* requires confirmation for delete, development for nothing, and every
\* tier has an empty blocked_actions list.
C23_DefaultContents ==
    (Loaded /\ file.kind = "missing") =>
        /\ cfg.Defaults.RequireConfirmation = FALSE
        /\ cfg.Defaults.BlockedActions = <<>>
        /\ DOMAIN cfg.Clusters = {}
        /\ DOMAIN cfg.Tiers = {"production", "staging", "development"}
        /\ cfg.Tiers["production"].Patterns =
              <<"*-prod", "*-production", "prod-*", "production-*">>
        /\ Range(cfg.Tiers["production"].RequireConfirmation) = {"delete", "drain"}
        /\ Range(cfg.Tiers["staging"].RequireConfirmation) = {"delete"}
        /\ Range(cfg.Tiers["development"].RequireConfirmation) = {}
        /\ \A t \in DOMAIN cfg.Tiers : cfg.Tiers[t].BlockedActions = <<>>

\* no configuration file: main goes on with Default()
C23_Witness ==
    /\ pc = "getContext"
    /\ file.kind = "missing"
    /\ loaded.err = "notexist"
    /\ Cardinality(DOMAIN cfg.Tiers) = 3

----------------------------------------------------------------------------
(* rbac.GetActionSeverity and rbac.DescribeAction on their own *)

\* the action constants, verbs DetectAction passes through, tags in other
\* cases and strings that are labels or severities themselves
LabelTags ==
    MatchActions \cup RuleTokens
    \cup {"uncordon", "describe", "logs", "port-forward", "unknown-action",
          "top", "api-resources", "Exec", "Delete resources", "Manage rollout",
          "high", "none"}

InitLabel ==
    /\ pc = "l_call"
    /\ action \in LabelTags
    /\ argv = <<>>
    /\ args = <<>>
    /\ cfg = EmptyConfig
    /\ context = ""
    /\ warned = FALSE
    /\ hasYesFlag = FALSE
    /\ rules = NoRules
    /\ rules2 = NoRules
    /\ blocked = FALSE
    /\ needsConfirm = FALSE
    /\ confirmed = FALSE
    /\ prompts = 0
    /\ execs = 0
    /\ exitCode = -1
    /\ outcome = "running"
    /\ file = NoFile
    /\ loaded = NotLoaded
    /\ contextErr = FALSE
    /\ stdin = NoStdin
    /\ child = NoChild
    /\ severity = ""
    /\ description = ""

\* a call of rbac.GetActionSeverity(action)
CallGetActionSeverity ==
    /\ pc = "l_call"
    /\ severity' = GetActionSeverity(action)
    /\ UNCHANGED <<file, loaded, contextErr, stdin, child, description,
                   pc, argv, args, cfg, warned, context, hasYesFlag, action,
                   rules, rules2, blocked, needsConfirm, confirmed, prompts,
                   execs, exitCode, outcome>>

\* a call of rbac.DescribeAction(action)
CallDescribeAction ==
    /\ pc = "l_call"
    /\ description' = DescribeAction(action)
    /\ UNCHANGED <<file, loaded, contextErr, stdin, child, severity,
                   pc, argv, args, cfg, warned, context, hasYesFlag, action,
                   rules, rules2, blocked, needsConfirm, confirmed, prompts,
                   execs, exitCode, outcome>>

NextLabel == CallGetActionSeverity \/ CallDescribeAction

SpecLabel == InitLabel /\ [][NextLabel]_vars

\* the severities as documented
SeverityTable ==
    {<<"delete", "high">>, <<"drain", "high">>,
     <<"scale", "medium">>, <<"cordon", "medium">>, <<"edit", "medium">>,
     <<"patch", "medium">>, <<"rollout", "medium">>,
     <<"apply", "low">>, <<"create", "low">>}

\* the labels of the ten recognized actions
LabelTable ==
    {<<"delete", "Delete resources">>,
     <<"drain", "Drain node (evict all pods)">>,
     <<"cordon", "Cordon/uncordon node">>,
     <<"scale", "Scale deployment replicas">>,
     <<"edit", "Edit resource configuration">>,
     <<"patch", "Patch resource">>,
     <<"apply", "Apply configuration">>,
     <<"create", "Create resource">>,
     <<"exec", "Execute command in pod">>,
     <<"rollout", "Manage rollout">>}

\* C24: GetActionSeverity and DescribeAction depend on the action tag alone:
\* the severity is high for delete and drain, medium for scale, cordon, edit,
\* patch and rollout, low for apply and create and none for every other tag;
\* DescribeAction returns a fixed label for each of the ten recognized
\* actions and the tag itself for any other tag.
C24_SeverityAndLabel ==
    /\ severity # "" =>
          IF \E e \in SeverityTable : e[1] = action
          THEN <<action, severity>> \in SeverityTable
          ELSE severity = "none"
    /\ description # "" =>
          IF \E e \in LabelTable : e[1] = action
          THEN <<action, description>> \in LabelTable
          ELSE description = action

\* exec has severity none and the label "Execute command in pod"
C24_Witness ==
    /\ action = "exec"
    /\ severity = "none"
    /\ description = "Execute command in pod"

----------------------------------------------------------------------------
(* the iteration order of the maps *)

\* a sequence back to front
Reverse(q) == [i \in 1..Len(q) |-> q[Len(q) + 1 - i]]

\* the configuration with the pattern list of every tier reversed
PatternsReversed ==
    [cfg EXCEPT !.Tiers =
        [t \in DOMAIN cfg.Tiers |->
            [cfg.Tiers[t] EXCEPT !.Patterns = Reverse(cfg.Tiers[t].Patterns)]]]

\* every rule set GetClusterRules can return for configuration c
ResultsOf(c) ==
    {GetClusterRules(c, context, co, to) :
        co \in Orders(DOMAIN c.Clusters), to \in Orders(DOMAIN c.Tiers)}

\* C25: when at most one clusters key glob-matches the context and at most
\* one tier has a pattern that matches it, the result of GetClusterRules does
\* not depend on the iteration order of the two maps; and the order of the
\* patterns inside a tier never changes the result.
C25_OrderIndependentWhenUnique ==
    /\ (/\ pc = "r_twice"
        /\ Cardinality(GlobKeys) <= 1
        /\ Cardinality(MatchingTiers) <= 1)
           => (rules = rules2 /\ ResultsOf(cfg) = {rules})
    /\ pc = "r_once" => rules \in ResultsOf(PatternsReversed)
    /\ pc = "r_twice" => ResultsOf(PatternsReversed) = ResultsOf(cfg)

\* two tiers of which only production matches prod-b, by the second of its
\* patterns: both calls have returned production
C25_Witness ==
    /\ pc = "r_twice"
    /\ context = "prod-b"
    /\ DOMAIN cfg.Clusters = {}
    /\ DOMAIN cfg.Tiers = {"production", "development"}
    /\ cfg.Tiers["production"].Patterns = <<"*-a", "prod-*">>
    /\ MatchingTiers = {"production"}
    /\ rules.Tier = "production"
    /\ rules2 = rules

----------------------------------------------------------------------------
(* DetectAction: the values of flags *)

\* the vector a without its tokens i .. j
Without(a, i, j) == SubSeq(a, 1, i - 1) \o SubSeq(a, j + 1, Len(a))

\* a long flag with its value in the same token
IsFlagUnit(t) == HasPrefix(t, "--") /\ ContainsChar(t, "=")

\* C26 as stated: the token that directly follows a token of flagsWithValues
\* is always skipped and never returned as the action, so the result is that
\* of the vector without the flag and the token after it.
C26_TokenAfterValueFlagSkipped ==
    pc = "d_done" =>
        \A i \in 1..(Len(args) - 1) :
            args[i] \in flagsWithValues =>
                action = DetectAction(Without(args, i, i + 1))

\* C26: the token that directly follows a value-consuming flag (one of
\* flagsWithValues, given as a separate token, and not itself the value of
\* the flag before it) is always skipped and never returned as the action,
\* a destructive verb or a token starting with '-' included; a --flag=value
\* token is a complete unit after which nothing is skipped, also when the
\* flag is a value-consuming one.
C26_ValueOfFlagSkipped ==
    pc = "d_done" =>
        /\ \A i \in 1..(Len(args) - 1) :
              (args[i] \in flagsWithValues /\ ~IsFlagValue(args, i)) =>
                  action = DetectAction(Without(args, i, i + 1))
        /\ \A i \in 1..Len(args) :
              (IsFlagUnit(args[i]) /\ ~IsFlagValue(args, i)) =>
                  action = DetectAction(Without(args, i, i))
        /\ args = <<"-n", "delete", "get">> => action = "get"
        /\ args = <<"-n", "--force", "delete">> => action = "delete"
        /\ args = <<"--namespace=dev", "delete">> => action = "delete"

\* DetectAction([-n, delete, get]) has returned get: the value delete of -n
\* was skipped
C26_Witness ==
    /\ pc = "d_done"
    /\ args = <<"-n", "delete", "get">>
    /\ action = "get"

\* the command token of args was taken for one although it stands right
\* after a flag that is not in flagsWithValues and carries no "=value"
ValueTakenForCommand ==
    /\ CommandPositions(args) # {}
    /\ LET k == FirstCommand(args)
       IN  /\ k > 1
           /\ IsFlagToken(args[k - 1])
           /\ args[k - 1] \notin flagsWithValues
           /\ ~IsFlagUnit(args[k - 1])
           /\ ~IsFlagValue(args, k - 1)

\* the action a command token stands for
ActionOf(t) == IF t \in DestructiveVerbs THEN MappedAction(t) ELSE t

\* C27: when a flag that is not in flagsWithValues is followed by a separate
\* value token before the verb, as in [--as, admin, delete, pod], DetectAction
\* returns the value token as the action and no error is signalled; the real
\* verb is then neither blocked nor confirmed unless the value token itself
\* matches a rule.
C27_UnlistedValueFlag ==
    (ValueTakenForCommand /\ action # "") =>
        LET v == args[FirstCommand(args)]
        IN  /\ action = ActionOf(v)
            /\ blocked => \E r \in Range(rules.BlockedActions) : Covers(r, ActionOf(v))
            /\ needsConfirm =>
                  \E r \in Range(rules.RequireConfirmation) : Covers(r, ActionOf(v))
            /\ args = <<"--as", "admin", "delete", "pod">> =>
                  /\ action = "admin"
                  /\ ~blocked /\ ~needsConfirm /\ prompts = 0
                  /\ pc = "done" => outcome = "executed"

\* kubectl --as admin delete pod on a cluster whose rules block delete: the
\* action is admin and kubectl has been run
C27_Witness ==
    /\ argv = <<"--as", "admin", "delete", "pod">>
    /\ action = "admin"
    /\ "delete" \in Range(rules.BlockedActions)
    /\ outcome = "executed"
    /\ execs = 1

----------------------------------------------------------------------------
(* the built-in tiers and the iteration order *)

\* the name matches one of the production patterns of Default()
ProductionName(n) ==
    \/ HasSuffix(n, "-prod")
    \/ HasSuffix(n, "-production")
    \/ HasPrefix(n, "prod-")
    \/ HasPrefix(n, "production-")

\* C28: with Default(), a context whose name matches a production pattern
\* resolves to tier production and requires confirmation for delete and
\* drain, whatever the order in which the tiers map is iterated, also when
\* the name matches a staging or development pattern as well.
C28_DefaultProductionWins ==
    (cfg = Default /\ rules # NoRules /\ ProductionName(context)) =>
        /\ rules.Tier = "production"
        /\ Range(rules.RequireConfirmation) = {"delete", "drain"}

----------------------------------------------------------------------------
(* the skip flag *)

\* the positions of a that hold neither --yes nor -y
KeptPositions(a) == {i \in 1..Len(a) : a[i] \notin {"--yes", "-y"}}

\* a with every --yes and -y removed, the other tokens in their order
WithoutSkipFlags(a) ==
    [j \in 1..Cardinality(KeptPositions(a)) |->
        a[CHOOSE i \in KeptPositions(a) :
            Cardinality({k \in KeptPositions(a) : k <= i}) = j]]

\* main is past the extraction of the skip flag
PastExtraction ==
    \/ pc \in {"detect", "resolve", "checkBlocked", "checkConfirm", "prompt", "execute"}
    \/ pc = "done" /\ outcome \in {"blocked", "cancelled", "executed"}

\* C29: the vector used for classification and passed to kubectl is the
\* original one with every token equal to --yes or -y removed and all other
\* tokens kept in their order; the skip flag is set iff such a token was
\* present, wherever it stood, after "--" or in the place of the value of
\* another flag included.
C29_SkipFlagFiltered ==
    PastExtraction =>
        /\ args = WithoutSkipFlags(argv)
        /\ hasYesFlag <=> KeptPositions(argv) # 1..Len(argv)
        /\ action # "" => action = DetectAction(WithoutSkipFlags(argv))
        /\ outcome = "executed" => child.args = WithoutSkipFlags(argv)

\* exec web -- -y rm: kubectl has been run with exec web -- rm
C29_Witness ==
    /\ argv = <<"exec", "web", "--", "-y", "rm">>
    /\ hasYesFlag
    /\ action = "exec"
    /\ outcome = "executed"
    /\ child.args = <<"exec", "web", "--", "rm">>

----------------------------------------------------------------------------
(* one invocation, one pass *)

\* the positions of main in the order of the code
PcOrder ==
    <<"start", "init", "checkKubectl", "loadConfig", "getContext", "extractYes",
      "detect", "resolve", "checkBlocked", "checkConfirm", "prompt", "execute",
      "done">>

Rank(p) == CHOOSE i \in 1..Len(PcOrder) : PcOrder[i] = p

\* the first argument is one main answers itself
OwnFlag(a) == a[1] \in {"--version", "-v", "--help", "-h", "--config-path"}

\* how an invocation that reaches the kubectl check can end
EndsAsDocumented ==
    \/ outcome = "kubectl-missing" /\ exitCode = 1 /\ execs = 0 /\ prompts = 0
    \/ outcome = "no-context" /\ exitCode = 1 /\ execs = 0 /\ prompts = 0
    \/ /\ outcome = "blocked" /\ exitCode = 1 /\ execs = 0 /\ prompts = 0
       /\ IsBlocked(action, rules)
    \/ /\ outcome = "cancelled" /\ exitCode = 0 /\ execs = 0 /\ prompts = 1
       /\ ~confirmed
    \/ /\ outcome = "executed" /\ execs = 1 /\ prompts <= 1
       /\ child.kind = "exited" => exitCode = child.code

\* every step of main moves forward, the action is assigned by the detect
\* step only, the rules by the resolve step only, and a prompt is shown and
\* kubectl is run by their own steps only
SinglePass ==
    /\ Rank(pc') > Rank(pc)
    /\ action' # action => pc = "detect"
    /\ rules' # rules => pc = "resolve"
    /\ prompts' # prompts => (pc = "prompt" /\ prompts' = 1 /\ ~IsBlocked(action, rules))
    /\ execs' # execs => (pc = "execute" /\ execs' = 1)

\* C30 as stated: every invocation that is not init and has an argument ends
\* in one of: kubectl missing, context unavailable, blocked, confirmation
\* declined or impossible, kubectl executed.
C30_FiveOutcomes ==
    (pc = "done" /\ Len(argv) > 0 /\ argv[1] # "init") =>
        outcome \in {"kubectl-missing", "no-context", "blocked", "cancelled", "executed"}

\* C30: every invocation terminates; one that is not init, has an argument
\* and does not start with --version, -v, --help, -h or --config-path ends in
\* exactly one of: kubectl missing (1), context unavailable (1), blocked (1),
\* confirmation declined or impossible (0, kubectl not run), kubectl executed
\* (its exit code); it classifies, resolves, prompts and runs kubectl at most
\* once each, and it prompts only after the block check has passed.
C30_SingleShot ==
    /\ <>(pc = "done")
    /\ []((pc = "done" /\ Len(argv) > 0 /\ argv[1] # "init" /\ ~OwnFlag(argv))
            => EndsAsDocumented)
    /\ []((prompts = 1 /\ ~confirmed) => (pc = "done" /\ outcome = "cancelled"))
    /\ [][SinglePass]_vars

\* drain node-1 on a cluster that asks for confirmation, declined at the
\* prompt: main has ended with 0 without running kubectl
C30_Witness ==
    /\ pc = "done"
    /\ argv = <<"drain", "node-1">>
    /\ outcome = "cancelled"
    /\ stdin.terminal
    /\ prompts = 1
    /\ execs = 0
    /\ exitCode = 0

====
